---- MODULE Spec2Model ----
(***************************************************************************)
(* Model of prueba.py, the Streamlit ground-control client of the drone    *)
(* drop logger.  Every event of the user (a click, a form submit, a new    *)
(* widget value) and every auto-refresh starts a run of the script from    *)
(* its top; the run proceeds from one st.* call to the next, sending the   *)
(* requests that lie between them, and the next event ends it at the call  *)
(* it has reached.  run.cut is the position of the run: the st.* call it   *)
(* is at, or "none" once it has ended by itself.                           *)
(*                                                                         *)
(* Conventions.  An optional JSON field is a sequence of length 0 (the key *)
(* is missing from the record) or 1 (<<v>>).  Velocity and distance are    *)
(* held in tenths (the widgets step by 0.1).  An integer ts is the pair    *)
(* <<hi, lo>> that stands for hi * Base + lo, 0 <= lo < Base; a pandas     *)
(* Timestamp is <<hi, lo, microsecond>>.  A float quotient or mean is the  *)
(* exact fraction [num, den] or [sum, n].                                  *)
(***************************************************************************)
EXTENDS Integers, Sequences, FiniteSets

-----------------------------------------------------------------------------
(* Bounds of the model *)

\* longest record list a /log.json response carries in the history runs
MaxRecords == 2

\* consecutive acknowledged stops that are counted
MaxStopsCounted == 2

-----------------------------------------------------------------------------
(* Generic helpers *)

None == <<>>
Some(v) == <<v>>
Has(o) == o # <<>>
Val(o) == o[1]

Abs(x) == IF x < 0 THEN -x ELSE x

RECURSIVE GCD(_, _)
GCD(a, b) == IF b = 0 THEN a ELSE GCD(b, a % b)

RECURSIVE SelectIdx(_, _, _)
\* the subsequence of s at the positions i >= from with keep[i]
SelectIdx(s, keep, from) ==
    IF from > Len(s) THEN <<>>
    ELSE (IF keep[from] THEN <<s[from]>> ELSE <<>>) \o SelectIdx(s, keep, from + 1)

RECURSIVE SumSeq(_, _)
SumSeq(s, from) == IF from > Len(s) THEN 0 ELSE s[from] + SumSeq(s, from + 1)

RECURSIVE SeqsUpTo(_, _)
SeqsUpTo(S, n) ==
    IF n = 0 THEN {<<>>}
    ELSE LET shorter == SeqsUpTo(S, n - 1)
         IN shorter \cup {Append(s, x) : s \in {t \in shorter : Len(t) = n - 1}, x \in S}

\* the first of the exceptions a and b of two statements in a row
first_exc(a, b) == IF a # "none" THEN a ELSE b

-----------------------------------------------------------------------------
(* 64-bit integers: the ts of a record is an int64 of the ts column *)

\* the weight of the high limb
Base == 2000000000

\* the integer hi * Base + lo, 0 <= lo < Base
Int64(hi, lo) == <<hi, lo>>

\* the integer n of at most 32 bits
Sec(n) == Int64(n \div Base, n % Base)

\* a <= b
LE64(a, b) == a[1] < b[1] \/ (a[1] = b[1] /\ a[2] <= b[2])

-----------------------------------------------------------------------------
(* The device's answers *)

\* A response: net is "ok", "unreachable" or "timeout"; status is the HTTP
\* status; json tells whether the body parses as JSON; kind is "list" or
\* "object", what the body parses to; keys are the keys of an object (its
\* values are scalars); data is the record list of a list.
Response(net, st, js, kind, keys, data) ==
    [net |-> net, status |-> st, json |-> js, kind |-> kind, keys |-> keys, data |-> data]

Unreachable == Response("unreachable", 0, FALSE, "list", {}, <<>>)
TimedOut    == Response("timeout", 0, FALSE, "list", {}, <<>>)
Http500     == Response("ok", 500, FALSE, "list", {}, <<>>)
Malformed   == Response("ok", 200, FALSE, "list", {}, <<>>)
OkJson(d)   == Response("ok", 200, TRUE, "list", {}, d)
OkInfo(K)   == Response("ok", 200, TRUE, "object", K, <<>>)

\* a complete answer of /info, and one without the firmware version
GoodInfo  == OkInfo({"records", "bytes", "fw", "state"})
ShortInfo == OkInfo({"records", "bytes"})

FailedResponses == {Unreachable, TimedOut, Http500, Malformed}
AckResponses    == FailedResponses \cup {OkJson(<<>>)}
InfoResponses   == AckResponses \cup {GoodInfo, ShortInfo}

\* a logged record
Rec(ts, lat, lon, speed, fix) ==
    [ts |-> ts, lat |-> lat, lon |-> lon, speed_mps |-> speed, fix_ok |-> fix]

\* the ts of a record stamped at epoch second n
At(n) == Some(Sec(n))

\* The records the device answers with in the history runs.  Day 19295 is
\* 2022-10-30, the 25-hour day on which daylight saving ended: a record at
\* its local midnight (06:00:00 UTC), one a second earlier, one in its last
\* second (05:59:59 UTC of the next day) that carries neither coordinates nor
\* speed; then a record without ts, one with a negative ts, one with the ts
\* 10^12 (a millisecond stamp, beyond the datetime range), and one in the
\* last second of the 23-hour day 2022-04-03 (04:59:59 UTC of the next day).
RecordPool ==
    { Rec(At(1667106000), Some(19), Some(-99), Some(5), Some(TRUE)),
      Rec(At(1667105999), Some(19), Some(-99), Some(7), Some(FALSE)),
      Rec(At(1667195999), None, None, None, Some(FALSE)),
      Rec(None, Some(19), Some(-99), Some(5), Some(TRUE)),
      Rec(At(-1), Some(19), Some(-99), Some(5), Some(TRUE)),
      Rec(Some(Int64(500, 0)), Some(19), Some(-99), Some(5), Some(TRUE)),
      Rec(At(1649048399), Some(19), Some(-99), Some(3), Some(TRUE)) }

\* the days the user picks: 2022-04-03 (23 hours), 2022-10-29 and
\* 2022-10-30 (25 hours)
Days == {19085, 19294, 19295}

HistoryLogResponses == FailedResponses \cup {OkJson(d) : d \in SeqsUpTo(RecordPool, MaxRecords)}

\* the /log.json answers to Connect & Preview: the failures, no record, a
\* complete record, a record without coordinates, one without ts, one whose
\* ts is beyond the datetime range
PreviewLogResponses ==
    FailedResponses \cup
    { OkJson(<<>>),
      OkJson(<<Rec(At(1667106000), Some(19), Some(-99), Some(5), Some(TRUE))>>),
      OkJson(<<Rec(At(1667195999), None, None, None, Some(FALSE))>>),
      OkJson(<<Rec(None, Some(19), Some(-99), Some(5), Some(TRUE))>>),
      OkJson(<<Rec(Some(Int64(500, 0)), Some(19), Some(-99), Some(5), Some(TRUE))>>) }

\* the /log.json answers to the daily view in the mission-control runs
SessionLogResponses ==
    { Malformed, TimedOut, OkJson(<<>>),
      OkJson(<<Rec(At(1667106000), Some(19), Some(-99), Some(5), Some(TRUE))>>) }

-----------------------------------------------------------------------------
(* Helpers to talk to the ESP *)

\* r.raise_for_status(): HTTPError on 4xx and 5xx
raise_for_status(r) == IF r.status >= 400 /\ r.status < 600 THEN "HTTPError" ELSE "none"

\* requests.get/post/delete: the exception of the transport, or "none"
transport(r) ==
    IF r.net = "unreachable" THEN "ConnectionError"
    ELSE IF r.net = "timeout" THEN "Timeout"
    ELSE "none"

\* request; raise_for_status(); return r.json()
json_call(r) ==
    IF transport(r) # "none" THEN [exc |-> transport(r), value |-> <<>>]
    ELSE IF raise_for_status(r) # "none" THEN [exc |-> "HTTPError", value |-> <<>>]
    ELSE IF ~r.json THEN [exc |-> "JSONDecodeError", value |-> <<>>]
    ELSE [exc |-> "none", value |-> r.data]

\* request; raise_for_status(); the body is not parsed
raw_call(r) ==
    IF transport(r) # "none" THEN [exc |-> transport(r), value |-> <<>>]
    ELSE IF raise_for_status(r) # "none" THEN [exc |-> "HTTPError", value |-> <<>>]
    ELSE [exc |-> "none", value |-> <<>>]

Req(method, path, body) == [method |-> method, path |-> path, body |-> body]

fetch_info(r)  == json_call(r)
fetch_state(r) == json_call(r)

\* fetch_json with a body that does not parse read as an empty list
fetch_json_swallow(r) ==
    IF json_call(r).exc = "JSONDecodeError" THEN [exc |-> "none", value |-> <<>>]
    ELSE json_call(r)

fetch_json(r) == json_call(r)

fetch_csv_bytes(r) == raw_call(r)

\* requests.delete(f"{base}/log"); r.raise_for_status()
clear_log(r) == raw_call(r)

\* body = {"interval_s": float(interval_s), "delay_s": float(delay_s), "step_hz": int(step_hz)}
start_body(interval_s, delay_s, step_hz) ==
    [interval_s |-> interval_s, delay_s |-> delay_s, step_hz |-> step_hz]

\* start_mission without r.raise_for_status()
start_mission_noraise(r) ==
    IF transport(r) # "none" THEN [exc |-> transport(r), value |-> <<>>]
    ELSE IF ~r.json THEN [exc |-> "JSONDecodeError", value |-> <<>>]
    ELSE [exc |-> "none", value |-> r.data]

start_mission(r) == json_call(r)

\* stop_mission reading a field of the acknowledgment that an empty one lacks
stop_mission_reads_ack(r) ==
    IF json_call(r).exc = "none" /\ r.data = <<>> THEN [exc |-> "KeyError", value |-> <<>>]
    ELSE json_call(r)

stop_mission(r) == json_call(r)

-----------------------------------------------------------------------------
(* Time: epoch seconds, America/Mexico_City *)

\* The offset table of America/Mexico_City in the tz database (release
\* 2025b), for the instants of a 32-bit epoch second: <<first instant, UTC
\* offset in seconds>>, in order: local mean time first, UTC-6 since the
\* last entry, 2022-10-30 07:00 UTC.
MexicoCityOffsets ==
    <<
       <<-2147483647, -23796>>, <<-1514739600, -25200>>, <<-1343149200, -21600>>,
       <<-1234807200, -25200>>, <<-1220461200, -21600>>, <<-1207159200, -25200>>,
       <<-1191344400, -21600>>, <<-975261600, -18000>>, <<-963169200, -21600>>,
       <<-917114400, -18000>>, <<-907354800, -21600>>, <<-821901600, -18000>>,
       <<-810068400, -21600>>, <<-627501600, -18000>>, <<-612990000, -21600>>,
       <<828864000, -18000>>, <<846399600, -21600>>, <<860313600, -18000>>,
       <<877849200, -21600>>, <<891763200, -18000>>, <<909298800, -21600>>,
       <<923212800, -18000>>, <<941353200, -21600>>, <<954662400, -18000>>,
       <<972802800, -21600>>, <<989136000, -18000>>, <<1001833200, -21600>>,
       <<1018166400, -18000>>, <<1035702000, -21600>>, <<1049616000, -18000>>,
       <<1067151600, -21600>>, <<1081065600, -18000>>, <<1099206000, -21600>>,
       <<1112515200, -18000>>, <<1130655600, -21600>>, <<1143964800, -18000>>,
       <<1162105200, -21600>>, <<1175414400, -18000>>, <<1193554800, -21600>>,
       <<1207468800, -18000>>, <<1225004400, -21600>>, <<1238918400, -18000>>,
       <<1256454000, -21600>>, <<1270368000, -18000>>, <<1288508400, -21600>>,
       <<1301817600, -18000>>, <<1319958000, -21600>>, <<1333267200, -18000>>,
       <<1351407600, -21600>>, <<1365321600, -18000>>, <<1382857200, -21600>>,
       <<1396771200, -18000>>, <<1414306800, -21600>>, <<1428220800, -18000>>,
       <<1445756400, -21600>>, <<1459670400, -18000>>, <<1477810800, -21600>>,
       <<1491120000, -18000>>, <<1509260400, -21600>>, <<1522569600, -18000>>,
       <<1540710000, -21600>>, <<1554624000, -18000>>, <<1572159600, -21600>>,
       <<1586073600, -18000>>, <<1603609200, -21600>>, <<1617523200, -18000>>,
       <<1635663600, -21600>>, <<1648972800, -18000>>, <<1667113200, -21600>>
    >>

\* the UTC offsets the zone has had
MexicoCityUtcOffsets == {MexicoCityOffsets[i][2] : i \in DOMAIN MexicoCityOffsets}

\* the last entry among 1..i of the table that starts at or before t (the
\* first entry when there is none), searched from the latest entry back
RECURSIVE last_transition(_, _)
last_transition(t, i) ==
    IF i = 1 \/ MexicoCityOffsets[i][1] <= t THEN i ELSE last_transition(t, i - 1)

\* UTC offset of America/Mexico_City at the instant t (epoch seconds): the
\* offset of the last entry of the table that starts at or before t
utcoffset(t) == MexicoCityOffsets[last_transition(t, Len(MexicoCityOffsets))][2]

\* UTC offset at the instant e, a 64-bit epoch second: the table covers the
\* 32-bit instants, the zone keeps its first offset before them and its last
\* offset after them
utcoffset_at(e) ==
    IF e[1] > 0 THEN utcoffset(2147483647)
    ELSE IF e[1] < -1 THEN utcoffset(-2147483647)
    ELSE utcoffset(e[1] * Base + e[2])

\* the only element of the set S, None when S has none or several
only(S) == IF Cardinality(S) = 1 THEN Some(CHOOSE u \in S : TRUE) ELSE None

\* the instants whose local time is the wall-clock second w
instants_at(w) == {u \in {w - o : o \in MexicoCityUtcOffsets} : u + utcoffset(u) = w}

\* Timestamp.tz_localize("America/Mexico_City") of the wall-clock second w:
\* the instant whose local time is w; None when there is none or two
\* (pandas raises NonExistentTimeError / AmbiguousTimeError).
tz_localize(w) == only(instants_at(w))

\* what tz_localize raises for a wall-clock second that n instants have
\* ("none" when it returns)
localize_exc(n) ==
    IF n = 0 THEN "NonExistentTimeError"
    ELSE IF n > 1 THEN "AmbiguousTimeError"
    ELSE "none"

\* Timestamp.min and Timestamp.max in whole seconds: the int64 nanoseconds
\* hold -9223372036 .. 9223372036
MinDatetime == Int64(-5, 776627964)
MaxDatetime == Int64(4, 1223372036)

\* whether pd.to_datetime(unit="s") can hold the epoch second e
in_datetime_range(e) == LE64(MinDatetime, e) /\ LE64(e, MaxDatetime)

\* the Timestamp us microseconds after the epoch second e
Timestamp(e, us) == <<e[1], e[2], us>>

\* pd.to_datetime(ts, unit="s", utc=True).tz_convert(...): the instant of the
\* record, NaT (None) when ts is missing
to_datetime(r) == IF Has(r.ts) THEN Some(Timestamp(Val(r.ts), 0)) ELSE None

\* a <= b on Timestamps
TsLE(a, b) ==
    \/ a[1] < b[1]
    \/ a[1] = b[1] /\ a[2] < b[2]
    \/ a[1] = b[1] /\ a[2] = b[2] /\ a[3] <= b[3]

\* the Timestamp us microseconds after the localized second s, None when
\* the localization raised
at_microsecond(s, us) == IF Has(s) THEN Some(Timestamp(Sec(Val(s)), us)) ELSE None

\* pd.Timestamp.combine(day, datetime.min.time()).tz_localize(...)
day_start(d) == at_microsecond(tz_localize(d * 24 * 3600), 0)

\* pd.Timestamp.combine(day, datetime.max.time()).tz_localize(...):
\* 23:59:59.999999 of the day
day_end(d) == at_microsecond(tz_localize(d * 24 * 3600 + 23 * 3600 + 59 * 60 + 59), 999999)

\* what lines 177-178 raise for the day d: the exception of day_start, else
\* that of day_end
window_exc(d) ==
    first_exc(localize_exc(Cardinality(instants_at(d * 24 * 3600))),
              localize_exc(Cardinality(instants_at(d * 24 * 3600 + 23 * 3600 + 59 * 60 + 59))))

\* (df_all["dt"] >= day_start) & (df_all["dt"] <= day_end); NaT compares false
mask(dt, ds, de) == Has(dt) /\ TsLE(ds, Val(dt)) /\ TsLE(Val(dt), de)

-----------------------------------------------------------------------------
(* DataFrames *)

Fields == {"ts", "lat", "lon", "speed_mps", "fix_ok"}

\* pd.DataFrame(data): one row per record, one column per key that some
\* record carries
DataFrame(data) ==
    [rows |-> data,
     cols |-> {k \in Fields : \E i \in 1..Len(data) : Has(data[i][k])}]

\* pd.DataFrame(columns=[...]): no row, the named columns
EmptyFrame(cols) == [rows |-> <<>>, cols |-> cols]

\* DataFrame.empty: any axis of length 0
IsEmpty(df) == Len(df.rows) = 0 \/ df.cols = {}

\* pd.to_datetime(df["ts"], unit="s", utc=True): KeyError without the ts
\* column, OutOfBoundsDatetime when a ts lies outside the datetime range
to_datetime_exc(df) ==
    IF "ts" \notin df.cols THEN "KeyError"
    ELSE IF \E i \in 1..Len(df.rows) :
               Has(df.rows[i].ts) /\ ~in_datetime_range(Val(df.rows[i].ts))
      THEN "OutOfBoundsDatetime"
    ELSE "none"

\* a float shown by the page: kind "value" (sum / n), "nan", "zero" (the 0.0
\* fallback) or "dash" (the no-data text)
Num(kind, sum, n) == [kind |-> kind, sum |-> sum, n |-> n]
Dash == Num("dash", 0, 0)

\* Series.mean() of column k: NaN values are skipped, the mean of none is NaN
Mean(df, k) ==
    LET has  == [i \in 1..Len(df.rows) |-> Has(df.rows[i][k])]
        vals == SelectIdx([i \in 1..Len(df.rows) |->
                              IF has[i] THEN Val(df.rows[i][k]) ELSE 0], has, 1)
    IN IF Len(vals) = 0 THEN Num("nan", 0, 0) ELSE Num("value", SumSeq(vals, 1), Len(vals))

\* int(df["fix_ok"].sum()): the number of rows whose fix_ok is true
FixSum(df) == Cardinality({i \in 1..Len(df.rows) : df.rows[i].fix_ok = Some(TRUE)})

-----------------------------------------------------------------------------
(* Daily view: fetch, filter by day (lines 171-185) *)

\* the rows of df_all inside the day window
filter_day(df, ds, de) ==
    SelectIdx(df.rows, [i \in 1..Len(df.rows) |-> mask(to_datetime(df.rows[i]), ds, de)], 1)

\* pd.DataFrame(data) of a non-empty object whose values are scalars raises
\* ValueError; an empty object is falsy like an empty list
frame_exc(r) == IF r.kind = "object" /\ r.keys # {} THEN "ValueError" ELSE "none"

\* Lines 173-182 for the parsed answer data and the day window ds..de, whose
\* localization raised wexc: the frame of the fetched records and its rows
\* of the day.  Line 176 raises before df_all gets its dt column.
day_frames(data, ds, de, wexc) ==
    IF IsEmpty(data)
      THEN [defined |-> TRUE, df_all |-> data, df_day |-> data, exc |-> "none"]
    ELSE IF to_datetime_exc(data) # "none"
      THEN [defined |-> TRUE, df_all |-> data,
            df_day |-> EmptyFrame(Fields \cup {"dt"}), exc |-> to_datetime_exc(data)]
    ELSE IF wexc # "none"
      THEN [defined |-> TRUE, df_all |-> [data EXCEPT !.cols = @ \cup {"dt"}],
            df_day |-> EmptyFrame(Fields \cup {"dt"}), exc |-> wexc]
    ELSE [defined |-> TRUE, df_all |-> [data EXCEPT !.cols = @ \cup {"dt"}],
          df_day |-> [rows |-> filter_day(data, Val(ds), Val(de)),
                      cols |-> data.cols \cup {"dt"}],
          exc |-> "none"]

\* The except clause of line 183 for the exception e: df_all stays
\* unassigned
view_failed(e) ==
    [defined |-> FALSE, df_all |-> EmptyFrame(Fields),
     df_day |-> EmptyFrame(Fields \cup {"dt"}), exc |-> e]

\* The try block of the daily view for the outcome call of fetch_json, whose
\* body has the shape of lr, and the day window ds..de, whose localization
\* raised wexc
daily_try(lr, call, ds, de, wexc) ==
    IF call.exc # "none" THEN view_failed(call.exc)
    ELSE IF frame_exc(lr) # "none" THEN view_failed(frame_exc(lr))
    ELSE IF call.value # <<>> THEN day_frames(DataFrame(call.value), ds, de, wexc)
    ELSE day_frames(EmptyFrame(Fields), ds, de, wexc)

\* The daily view for the answer lr of the device and the selected day d.
\* defined: df_all was assigned; exc: the exception the except clause
\* caught ("none" when none).
daily_view(lr, d) == daily_try(lr, fetch_json(lr), day_start(d), day_end(d), window_exc(d))

-----------------------------------------------------------------------------
(* Stats + map + table (lines 188-222) *)

\* "Rows (selected day)"
metric_rows(v) == Len(v.df_day.rows)

\* "Total fetched rows"
metric_total(v) == IF v.defined THEN Len(v.df_all.rows) ELSE 0

\* "Valid GPS rows" counted as the rows that carry coordinates
metric_valid_by_coords(v) ==
    IF ~IsEmpty(v.df_day) /\ "fix_ok" \in v.df_day.cols
    THEN Cardinality({i \in 1..Len(v.df_day.rows) :
                         Has(v.df_day.rows[i].lat) /\ Has(v.df_day.rows[i].lon)})
    ELSE 0

\* "Valid GPS rows"
metric_valid(v) ==
    IF ~IsEmpty(v.df_day) /\ "fix_ok" \in v.df_day.cols THEN FixSum(v.df_day) ELSE 0

\* "Avg speed (m/s)"
metric_speed(v) ==
    IF ~IsEmpty(v.df_day) /\ "speed_mps" \in v.df_day.cols
    THEN Mean(v.df_day, "speed_mps") ELSE Dash

\* lat0 / lon0 of the map: the mean of the column, 0.0 when it holds no value
map_center(df, k) ==
    IF \E i \in 1..Len(df.rows) : Has(df.rows[i][k]) THEN Mean(df, k) ELSE Num("zero", 0, 0)

\* The map and the table of the selected day: the map shown with its centre
\* and the table under it, or the "No rows for the selected day" text (info);
\* a missing lat or lon column raises KeyError, which nothing catches.
map_section(v) ==
    IF IsEmpty(v.df_day)
      THEN [shown |-> FALSE, table |-> FALSE, info |-> TRUE,
            lat0 |-> Dash, lon0 |-> Dash, exc |-> "none"]
    ELSE IF "lat" \notin v.df_day.cols \/ "lon" \notin v.df_day.cols
      THEN [shown |-> FALSE, table |-> FALSE, info |-> FALSE,
            lat0 |-> Dash, lon0 |-> Dash, exc |-> "KeyError"]
    ELSE [shown |-> TRUE, table |-> TRUE, info |-> FALSE,
          lat0 |-> map_center(v.df_day, "lat"),
          lon0 |-> map_center(v.df_day, "lon"), exc |-> "none"]

-----------------------------------------------------------------------------
(* Widgets *)

\* st.number_input(min_value=lo, max_value=hi): the widget takes the typed
\* value x when lo <= x <= hi and keeps its value otherwise
number_input(old, x, lo, hi) == IF lo <= x /\ x <= hi THEN x ELSE old

\* the four inputs of start_form, velocity and distance in tenths
Form(v, dist, delay, hz) == [velocity |-> v, distance |-> dist, delay_s |-> delay, step_hz |-> hz]

\* value=10.0, value=30.0, value=10.0, value=200
DefaultForm == Form(100, 300, 10, 200)

\* start_form after the user typed the values of x and pressed Start
start_form(old, x) ==
    Form(number_input(old.velocity, x.velocity, 1, 1000),
         number_input(old.distance, x.distance, 1, 10000),
         number_input(old.delay_s, x.delay_s, 0, 120),
         number_input(old.step_hz, x.step_hz, 1, 50000))

\* What the user types into start_form.  Velocity and distance at their
\* bounds; one of them, then both, below the lower bound; both above the
\* upper bound; a quotient that is no whole number of hundredths, with the
\* bounds of delay and frequency; the values just outside these.
TypedForms ==
    { Form(1, 10000, 10, 200), Form(1000, 1, 10, 200),
      Form(0, 300, 10, 200), Form(100, 0, 10, 200), Form(0, 0, 10, 200),
      Form(1001, 10001, 10, 200),
      Form(70, 1, 0, 1), Form(70, 1, 120, 50000),
      Form(100, 300, -1, 0), Form(100, 300, 121, 50001) }

\* the quotient taken the wrong way round: velocity / distance
computed_interval_inverted(distance, velocity) ==
    IF distance = 0 THEN None
    ELSE LET g == GCD(Abs(distance), Abs(velocity))
             sgn == IF distance < 0 THEN -1 ELSE 1
         IN Some([num |-> sgn * (velocity \div g), den |-> sgn * (distance \div g)])

\* computed_interval = distance / velocity: the quotient in lowest terms,
\* None when the division raises ZeroDivisionError
computed_interval(distance, velocity) ==
    IF velocity = 0 THEN None
    ELSE LET g == GCD(Abs(distance), Abs(velocity))
             sgn == IF velocity < 0 THEN -1 ELSE 1
         IN Some([num |-> sgn * (distance \div g), den |-> sgn * (velocity \div g)])


-----------------------------------------------------------------------------
(* One run of the script *)

Buttons == {"connect", "download", "clear", "start", "stop", "state"}

\* what a placeholder or a handler shows: level "empty", "success", "error",
\* "warning" or "json"; exc is the exception in the text
Msg(level, text, exc) == [level |-> level, text |-> text, exc |-> exc]
NoMsg == Msg("empty", "", "none")

\* The position of a run: the st.* call it makes next, where the next event
\* of the user ends it before the call shows anything.
\*   "top"      a call before the request of the pressed button (for a run
\*              without a button, before line 120): nothing is sent
\*   "info"     Connect: the call that follows GET /info (line 62 or 92)
\*   "handler"  the call that follows the last request of the pressed
\*              button's handler: the request is sent, its message is not
\*              shown (Connect: line 71, 72, 90 or 92, after GET /log.json)
\*   "preview"  Connect: line 73, or line 74 when line 77 does not raise:
\*              the preview table is drawn, the map is not
\*   "maperr"   Connect: line 92 after line 77 raised: the table is drawn,
\*              the error is not shown
\*   "csv"      Download CSV: line 107: the download button is drawn, the
\*              "CSV ready" text is not
\*   "daily"    a call between the handlers and the daily fetch
\*   "fetched"  the call that follows the daily fetch (line 185, or 188 or
\*              189 when the fetch did not raise)
\*   "warned"   line 188 or 189 after the warning of line 185
\*   "metric1"  line 190: one of the four metrics is drawn
\*   "metric2"  line 191: two are drawn
\*   "metric3"  line 194 or 196: three are drawn
\*   "map"      line 199, 203 or 222: the metrics are drawn, neither the
\*              map nor the "No rows" text is
\*   "table"    line 219 or 220: the map is drawn, the table is not
\*   "none"     the run has ended by itself: it reached line 225 or raised
CutOrder ==
    <<"top", "info", "handler", "preview", "maperr", "csv", "daily", "fetched",
      "warned", "metric1", "metric2", "metric3", "map", "table", "none">>

Cuts == {CutOrder[i] : i \in DOMAIN CutOrder}

\* the calls inside the handlers of lines 59-118, which show what the
\* handler has to show
HandlerCuts == {"info", "handler", "preview", "maperr", "csv"}

\* the calls after the daily fetch
ViewCuts == {"fetched", "warned", "metric1", "metric2", "metric3", "map", "table"}

\* a handler that sends its request again when the call failed
requests_retried(q, e) == IF e # "none" THEN <<q, q>> ELSE <<q>>

\* the requests of a handler whose call ended with e: one call inside
\* try/except, no loop
requests_of(q, e) == <<q>>

\* f"... {info['records']} ... {info['bytes']} ... {info['fw']} ...
\* {info.get('state')}" (lines 63-64): TypeError for a list, KeyError for an
\* object without one of the three keys
format_info(r) ==
    IF r.kind # "object" THEN "TypeError"
    ELSE IF ~({"records", "bytes", "fw"} \subseteq r.keys) THEN "KeyError"
    ELSE "none"

\* what lines 61-65 raise for the answer hr of /info
info_exc(hr) == first_exc(fetch_info(hr).exc, format_info(hr))

\* "Connect & Preview" (lines 59-92) for the answers hr of /info and pr of
\* /log.json, in a run that is at cut
connect_handler(cut, hr, pr) ==
    LET log  == fetch_json(pr)
        df   == DataFrame(log.value)
        r1   == <<Req("GET", "/info", None)>>
        r2   == r1 \o <<Req("GET", "/log.json", None)>>
        connected == Msg("success", "Connected", "none")
        \* the except clause: status.error is the call a run in the handler is at
        fail(reqs, e, pv, before) ==
            [sent |-> reqs,
             status |-> IF cut \in HandlerCuts THEN before
                        ELSE Msg("error", "Connection failed", e),
             preview |-> pv, exc |-> e]
    IN IF info_exc(hr) # "none" THEN fail(r1, info_exc(hr), "none", NoMsg)
       ELSE IF cut = "info"
         THEN [sent |-> r1, status |-> NoMsg, preview |-> "none", exc |-> "none"]
       ELSE IF log.exc # "none" THEN fail(r2, log.exc, "none", connected)
       ELSE IF frame_exc(pr) # "none" THEN fail(r2, frame_exc(pr), "none", connected)
       ELSE IF log.value = <<>>
         THEN [sent |-> r2, status |-> connected,
               preview |-> IF cut = "handler" THEN "none" ELSE "nodata", exc |-> "none"]
       ELSE IF to_datetime_exc(df) # "none"
         THEN fail(r2, to_datetime_exc(df), "none", connected)
       ELSE IF cut = "handler"
         THEN [sent |-> r2, status |-> connected, preview |-> "none", exc |-> "none"]
       ELSE IF cut = "preview"
         THEN [sent |-> r2, status |-> connected, preview |-> "table", exc |-> "none"]
       ELSE IF "lat" \notin df.cols \/ "lon" \notin df.cols
         THEN fail(r2, "KeyError", "table", connected)
       ELSE [sent |-> r2, status |-> connected, preview |-> "table+map", exc |-> "none"]

\* The handlers of lines 59-118: Connect, Download CSV, Clear Log.  button
\* tells whether the "Save log.csv" download button is drawn.
top_handlers(c, cut, hr, pr) ==
    LET quiet == [sent |-> <<>>, status |-> NoMsg, preview |-> "none", msg |-> NoMsg,
                  button |-> FALSE, exc |-> "none"]
        shown(m) == IF cut \in HandlerCuts THEN NoMsg ELSE m
    IN CASE c = "connect" ->
              LET h == connect_handler(cut, hr, pr)
              IN [quiet EXCEPT !.sent = h.sent, !.status = h.status,
                               !.preview = h.preview, !.exc = h.exc]
         [] c = "download" ->
              LET e == fetch_csv_bytes(hr).exc
                  q == requests_of(Req("GET", "/log.csv", None), e)
              IN IF e = "none"
                 THEN [quiet EXCEPT !.sent = q,
                                    !.button = cut # "handler",
                                    !.msg = shown(Msg("success", "CSV ready", "none"))]
                 ELSE [quiet EXCEPT !.sent = q,
                                    !.status = shown(Msg("error", "Download failed", e)),
                                    !.exc = e]
         [] c = "clear" ->
              LET e == clear_log(hr).exc
                  q == requests_of(Req("DELETE", "/log", None), e)
              IN IF e = "none"
                 THEN [quiet EXCEPT !.sent = q,
                                    !.msg = shown(Msg("success", "Log cleared on device",
                                                      "none"))]
                 ELSE [quiet EXCEPT !.sent = q,
                                    !.status = shown(Msg("error", "Clear failed", e)),
                                    !.exc = e]
         [] OTHER -> quiet

\* The handlers of lines 125-160: Start (with the interval computed from
\* the form), Stop, Refresh state.
mission_handlers(c, f, interval, cut, hr) ==
    LET quiet == [sent |-> <<>>, msg |-> NoMsg, exc |-> "none"]
        shown(m) == IF cut \in HandlerCuts THEN NoMsg ELSE m
    IN CASE c = "start" ->
              LET e == start_mission(hr).exc
                  q == requests_of(Req("POST", "/start",
                                       Some(start_body(interval, f.delay_s, f.step_hz))), e)
              IN IF e = "none"
                 THEN [sent |-> q, msg |-> shown(Msg("success", "Started", "none")),
                       exc |-> e]
                 ELSE [sent |-> q, msg |-> shown(Msg("error", "Start failed", e)), exc |-> e]
         [] c = "stop" ->
              LET e == stop_mission(hr).exc
                  q == requests_of(Req("POST", "/stop", None), e)
              IN IF e = "none"
                 THEN [sent |-> q, msg |-> shown(Msg("success", "Stopped", "none")),
                       exc |-> e]
                 ELSE [sent |-> q, msg |-> shown(Msg("error", "Stop failed", e)), exc |-> e]
         [] c = "state" ->
              LET e == fetch_state(hr).exc
                  q == requests_of(Req("GET", "/state", None), e)
              IN IF e = "none"
                 THEN [sent |-> q, msg |-> shown(Msg("json", "state", "none")), exc |-> e]
                 ELSE [sent |-> q, msg |-> shown(Msg("error", "State failed", e)), exc |-> e]
         [] OTHER -> quiet

\* the daily view of a run that did not reach line 171
NoView == [defined |-> FALSE, df_all |-> EmptyFrame(Fields),
           df_day |-> EmptyFrame(Fields \cup {"dt"}), exc |-> "none"]

\* the map section of a run that did not reach line 198
NoMap == [shown |-> FALSE, table |-> FALSE, info |-> FALSE,
          lat0 |-> Dash, lon0 |-> Dash, exc |-> "none"]

\* how many of the four metrics of lines 189-196 a run at cut has drawn
metrics_drawn(cut) ==
    CASE cut \in {"fetched", "warned"} -> 0
      [] cut = "metric1" -> 1
      [] cut = "metric2" -> 2
      [] cut = "metric3" -> 3
      [] OTHER -> 4

\* the map section m of lines 198-222 in a run at cut
map_drawn(m, cut) ==
    IF cut = "none" THEN m
    ELSE IF cut = "table" THEN [m EXCEPT !.table = FALSE]
    ELSE NoMap

\* Lines 185-222 drawn in the run r for the daily view v, up to cut: the
\* warning of the except clause, the n metrics the run has got to, the map
\* and the table
draw_view(r, v, cut, n) ==
    [r EXCEPT !.status = IF v.exc # "none" /\ cut # "fetched"
                         THEN Msg("warning", "Could not fetch preview JSON", v.exc)
                         ELSE @,
              !.metrics = n,
              !.m1 = IF n >= 1 THEN metric_rows(v) ELSE 0,
              !.m2 = IF n >= 2 THEN metric_total(v) ELSE 0,
              !.m3 = IF n >= 3 THEN metric_valid(v) ELSE 0,
              !.m4 = IF n >= 4 THEN metric_speed(v) ELSE Dash,
              !.map = map_drawn(map_section(v), cut),
              !.crashed = map_drawn(map_section(v), cut).exc]

\* a run at cut that has sent nothing
idle_run(cut) ==
    [sent |-> <<>>, status |-> NoMsg, preview |-> "none", msg |-> NoMsg,
     download_button |-> FALSE,
     hexc |-> "none", view |-> NoView, fetched |-> FALSE,
     metrics |-> 0, m1 |-> 0, m2 |-> 0, m3 |-> 0, m4 |-> Dash,
     map |-> NoMap, crashed |-> "none", cut |-> cut]

\* the run r after the handlers of lines 59-118 with outcome top
after_top(r, top) ==
    [r EXCEPT !.sent = top.sent, !.status = top.status, !.preview = top.preview,
              !.msg = top.msg, !.download_button = top.button, !.hexc = top.exc]

\* the run r after the handlers of lines 125-160 with outcome mis
after_mission(r, mis) ==
    [r EXCEPT !.sent = @ \o mis.sent,
              !.msg = IF @ # NoMsg THEN @ ELSE mis.msg,
              !.hexc = IF @ # "none" THEN @ ELSE mis.exc]

\* the run r after the fetch of the daily view v (lines 171-184)
after_fetch(r, v) ==
    [r EXCEPT !.sent = @ \o <<Req("GET", "/log.json", None)>>, !.view = v, !.fetched = TRUE]

\* The script from its top to cut for the outcomes of its parts: top of the
\* handlers of lines 59-118, interval of line 133, mis of the handlers of
\* lines 136-160, v of the daily view.
run_script(c, cut, top, interval, mis, v) ==
    IF cut = "top" THEN idle_run(cut)
    ELSE IF cut \in HandlerCuts /\ c \in {"connect", "download", "clear"}
      THEN after_top(idle_run(cut), top)
    ELSE IF ~Has(interval)
      THEN [after_top(idle_run("none"), top) EXCEPT !.crashed = "ZeroDivisionError"]
    ELSE IF cut \in HandlerCuts \cup {"daily"}
      THEN after_mission(after_top(idle_run(cut), top), mis)
    ELSE draw_view(after_fetch(after_mission(after_top(idle_run(cut), top), mis), v), v,
                   cut, metrics_drawn(cut))

\* the interval passed to start_mission (line 139), reached when line 133
\* did not raise
interval_s(interval) == IF Has(interval) THEN Val(interval) ELSE 0

\* The script, from its top to cut, for the clicked button c ("none" when no
\* button is pressed), the form f, the day d and the answers of the device:
\* hr to the request of the button, pr to the /log.json of Connect, lr to
\* the /log.json of the daily view.  crashed names the exception that ended
\* the run ("none" when there is none); metrics counts the metrics it drew.
Script(c, f, d, cut, hr, pr, lr) ==
    run_script(c, cut, top_handlers(c, cut, hr, pr),
               computed_interval(f.distance, f.velocity),
               mission_handlers(c, f, interval_s(computed_interval(f.distance, f.velocity)),
                                cut, hr),
               daily_view(lr, d))

\* st.rerun() of the auto refresh: the buttons are False in the rerun
rerun_clicked(c) == "none"

\* Whether the run gets to the call of cut.
Reaches(c, f, d, cut, hr, pr, lr) ==
    CASE cut \in {"top", "none"} -> TRUE
      [] cut = "info" -> c = "connect"
      [] cut = "handler" ->
            \/ c = "connect" /\ info_exc(hr) = "none"
            \/ c \in {"download", "clear"}
            \/ c \in {"start", "stop", "state"} /\
               Has(computed_interval(f.distance, f.velocity))
      [] cut = "preview" ->
            c = "connect" /\ connect_handler(cut, hr, pr).preview = "table"
      [] cut = "maperr" ->
            /\ c = "connect"
            /\ connect_handler(cut, hr, pr).preview = "table"
            /\ connect_handler(cut, hr, pr).exc = "KeyError"
      [] cut = "csv" -> c = "download" /\ fetch_csv_bytes(hr).exc = "none"
      [] cut = "warned" ->
            Has(computed_interval(f.distance, f.velocity)) /\ daily_view(lr, d).exc # "none"
      [] cut = "table" ->
            Has(computed_interval(f.distance, f.velocity)) /\
            map_section(daily_view(lr, d)).shown
      [] OTHER -> Has(computed_interval(f.distance, f.velocity))

\* the first call at or after position i of CutOrder that the run gets to
RECURSIVE next_reached(_, _, _, _, _, _, _)
next_reached(c, f, d, i, hr, pr, lr) ==
    IF Reaches(c, f, d, CutOrder[i], hr, pr, lr) THEN CutOrder[i]
    ELSE next_reached(c, f, d, i + 1, hr, pr, lr)

\* the position of cut in the script
position(cut) == CHOOSE i \in DOMAIN CutOrder : CutOrder[i] = cut

\* the call that the run at cut gets to next
next_cut(c, f, d, cut, hr, pr, lr) == next_reached(c, f, d, position(cut) + 1, hr, pr, lr)

-----------------------------------------------------------------------------
(* The session *)

VARIABLES
    form,          \* the values of the start_form widgets
    day,           \* the value of the date input (days since 1970-01-01)
    auto_refresh,  \* the "Auto-refresh while running" checkbox
    clicked,       \* the button that is True in the current run, or "none"
    user,          \* what started the current run: a button, "pick_day",
                   \* "toggle", "address", "seconds", "slider", "save",
                   \* "rerun" (auto refresh) or "load" (first run)
    attempt,       \* what the user typed into start_form for the current run
    pending_fail,  \* the button whose request failed at the user's last action
    stops_in_row,  \* acknowledged stops in a row, up to MaxStopsCounted
    answers,       \* what the device answered in the current run: hr to the
                   \* request of the button, pr to the /log.json of Connect,
                   \* lr to the /log.json of the daily view
    run            \* what the current run of the script has sent and shown,
                   \* and the call it is at (run.cut)

vars == <<form, day, auto_refresh, clicked, user, attempt, pending_fail, stops_in_row,
          answers, run>>

\* date.today() of the session
Today == CHOOSE d \in Days : \A e \in Days : e <= d

\* the answers of a run that has sent no request
NoAnswers == [hr |-> Unreachable, pr |-> Unreachable, lr |-> Unreachable]

\* An event starts a run of the script at its top, with the widget values
\* f, d, a and the button c pressed; the run that was under way ends where
\* it is.
Begin(u, c, f, x, d, a) ==
    /\ form' = f
    /\ attempt' = x
    /\ day' = d
    /\ auto_refresh' = a
    /\ clicked' = c
    /\ user' = u
    /\ answers' = NoAnswers
    /\ run' = Script(c, f, d, "top", Unreachable, Unreachable, Unreachable)
    /\ pending_fail' = IF u = "rerun" THEN pending_fail ELSE "none"
    /\ stops_in_row' = IF u \in {"rerun", "stop"} THEN stops_in_row ELSE 0

\* the first run of the script
Init ==
    /\ form = DefaultForm
    /\ attempt = DefaultForm
    /\ day = Today
    /\ auto_refresh = TRUE
    /\ clicked = "none"
    /\ user = "load"
    /\ pending_fail = "none"
    /\ stops_in_row = 0
    /\ answers = NoAnswers
    /\ run = Script("none", DefaultForm, Today, "top", Unreachable, Unreachable, Unreachable)

\* the answers to the request of the pressed button c
ButtonResponses(c) == IF c = "connect" THEN InfoResponses ELSE AckResponses

\* The run proceeds from the call it is at to the next call it gets to (or
\* to its end); the device answers the requests that lie between the two:
\* hr the request of the pressed button, pr the /log.json of Connect, which
\* is sent after an /info answer that line 62 can format, lr the /log.json
\* of the daily view, one of L.
Advance(L) ==
    /\ run.cut # "none"
    /\ \E hr \in (IF run.cut = "top" /\ clicked \in Buttons
                  THEN ButtonResponses(clicked) ELSE {answers.hr}),
          pr \in (IF run.cut = "info" /\ info_exc(answers.hr) = "none"
                  THEN PreviewLogResponses ELSE {answers.pr}),
          lr \in (IF run.cut = "daily" THEN L ELSE {answers.lr}) :
          /\ answers' = [hr |-> hr, pr |-> pr, lr |-> lr]
          /\ run' = Script(clicked, form, day,
                           next_cut(clicked, form, day, run.cut, hr, pr, lr), hr, pr, lr)
    /\ pending_fail' = IF user = "rerun" THEN pending_fail
                       ELSE IF run'.hexc # "none" THEN user ELSE "none"
    /\ stops_in_row' = IF user = "stop" /\ run.cut = "top"
                       THEN (IF run'.hexc # "none" THEN 0
                             ELSE IF stops_in_row < MaxStopsCounted THEN stops_in_row + 1
                             ELSE stops_in_row)
                       ELSE stops_in_row
    /\ UNCHANGED <<form, day, auto_refresh, clicked, user, attempt>>

\* A click on a button other than Start (lines 59, 96, 112, 145, 155): the
\* button is True in the run it starts, the widgets keep their values.
Connect      == Begin("connect", "connect", form, form, day, auto_refresh)
DownloadCsv  == Begin("download", "download", form, form, day, auto_refresh)
ClearLog     == Begin("clear", "clear", form, form, day, auto_refresh)
Stop         == Begin("stop", "stop", form, form, day, auto_refresh)
RefreshState == Begin("state", "state", form, form, day, auto_refresh)

\* the form submit button (line 136): the values typed into the form
\* arrive with it
SubmitStart ==
    \E x \in TypedForms : Begin("start", "start", start_form(form, x), x, day, auto_refresh)

\* A new value of a widget that is no button: every button is False in the
\* run it starts.  st.date_input (line 166):
PickDay == \E d \in Days \ {day} : Begin("pick_day", "none", form, form, d, auto_refresh)

\* st.checkbox (line 54)
ToggleAutoRefresh == Begin("toggle", "none", form, form, day, ~auto_refresh)

\* st.text_input (line 10), st.number_input "Seconds" (line 55) and
\* st.slider (line 168): the address, the pause and the row count are in no
\* part of a request or of the page that the model holds
TypeAddress == Begin("address", "none", form, form, day, auto_refresh)
SetSeconds  == Begin("seconds", "none", form, form, day, auto_refresh)
MoveSlider  == Begin("slider", "none", form, form, day, auto_refresh)

\* st.download_button (line 100), once it is drawn
SaveCsv ==
    /\ run.download_button
    /\ Begin("save", "none", form, form, day, auto_refresh)

\* time.sleep(refresh_every); st.rerun() (lines 225-228): only a run that
\* reached line 225 reruns itself
AutoRefresh ==
    /\ auto_refresh
    /\ run.cut = "none"
    /\ run.crashed = "none"
    /\ Begin("rerun", rerun_clicked(clicked), form, form, day, auto_refresh)

\* the run proceeds; the daily view gets one of the session's answers
Proceed == Advance(SessionLogResponses)

Next ==
    \/ Connect
    \/ DownloadCsv
    \/ ClearLog
    \/ SubmitStart
    \/ Stop
    \/ RefreshState
    \/ PickDay
    \/ ToggleAutoRefresh
    \/ TypeAddress
    \/ SetSeconds
    \/ MoveSlider
    \/ SaveCsv
    \/ AutoRefresh
    \/ Proceed

Spec == Init /\ [][Next]_vars

\* The history view alone: the user picks days and the page refreshes, the
\* device answers /log.json with every list of up to MaxRecords records.
HistoryProceed == Advance(HistoryLogResponses)

NextHistory ==
    \/ PickDay
    \/ AutoRefresh
    \/ HistoryProceed

SpecHistory == Init /\ [][NextHistory]_vars

-----------------------------------------------------------------------------
(* Vocabulary of the properties *)

\* the local calendar day (days since 1970-01-01) of the epoch second e;
\* Base is 23148 days and 12800 seconds
LocalDay(e) == e[1] * 23148 + (e[1] * 12800 + e[2] + utcoffset_at(e)) \div (24 * 3600)

Rows(df) == {df.rows[i] : i \in 1..Len(df.rows)}

\* the requests of the current run to one endpoint
Sent(method, path) ==
    {i \in 1..Len(run.sent) : run.sent[i].method = method /\ run.sent[i].path = path}

\* the request a button stands for
ButtonRequest(b) ==
    CASE b = "connect"  -> <<"GET", "/info">>
      [] b = "download" -> <<"GET", "/log.csv">>
      [] b = "clear"    -> <<"DELETE", "/log">>
      [] b = "start"    -> <<"POST", "/start">>
      [] b = "stop"     -> <<"POST", "/stop">>
      [] b = "state"    -> <<"GET", "/state">>

\* the error kind of an exception of the requests library
ErrorKind(exc) ==
    CASE exc \in {"ConnectionError", "Timeout"} -> "TransportError"
      [] exc = "HTTPError"                      -> "ProtocolError"
      [] exc = "JSONDecodeError"                -> "PayloadError"
      [] OTHER                                  -> "none"

IsFix(r) == r.fix_ok = Some(TRUE)

\* the fetched records that lie in the selected local day
InSelectedDay(r) == Has(r.ts) /\ LocalDay(Val(r.ts)) = day

\* the current run has drawn the four metrics
AllMetricsDrawn == run.metrics = 4

\* the typed value lies outside the bounds of its number input
OutOfBounds(x) ==
    \/ x.velocity < 1 \/ x.velocity > 1000
    \/ x.distance < 1 \/ x.distance > 10000
    \/ x.delay_s < 0 \/ x.delay_s > 120
    \/ x.step_hz < 1 \/ x.step_hz > 50000

-----------------------------------------------------------------------------
(* Properties *)

\* C1: every fetched record with an integer ts is kept by the day filter
\* exactly when its local calendar day in America/Mexico_City is the
\* selected day: local midnight belongs to the day, the second before to
\* the previous day, and nothing up to the next local midnight is lost.
C1_DayWindow ==
    run.view.defined =>
        \A r \in Rows(run.view.df_all) :
            Has(r.ts) => (r \in Rows(run.view.df_day) <=> LocalDay(Val(r.ts)) = day)

\* C2: a POST /start answered with HTTP 500 ends in a ProtocolError, a kind
\* of its own next to the transport and the payload failures; the page shows
\* "Start failed" once the run is past the st.error call, never "Started";
\* and nothing of the mission is kept: the widgets hold what the user typed
\* and the runs that follow the failed start (the auto-refresh reruns) send
\* no POST /start and show no message of a mission.
C2_Start500 ==
    /\ (clicked = "start" /\ Sent("POST", "/start") # {}) =>
          /\ answers.hr = Http500 =>
                /\ ErrorKind(run.hexc) = "ProtocolError"
                /\ run.msg = IF run.cut = "handler" THEN NoMsg
                             ELSE Msg("error", "Start failed", "HTTPError")
                /\ pending_fail = "start"
                /\ form = start_form(form, attempt)
          /\ answers.hr \in {Unreachable, TimedOut} => ErrorKind(run.hexc) = "TransportError"
          /\ answers.hr = Malformed => ErrorKind(run.hexc) = "PayloadError"
          /\ run.msg.level = "success" => answers.hr = OkJson(<<>>)
          /\ (answers.hr = OkJson(<<>>) /\ run.cut # "handler") => run.msg.level = "success"
    /\ (user = "rerun" /\ pending_fail = "start") =>
          /\ Sent("POST", "/start") = {}
          /\ run.msg = NoMsg
          /\ run.hexc = "none"
          /\ \A i \in 1..Len(run.sent) : run.sent[i] = Req("GET", "/log.json", None)

\* a start answered with 500 whose run got to show "Start failed"
C2_Witness ==
    /\ user = "start"
    /\ answers.hr = Http500
    /\ run.msg.text = "Start failed"
    /\ pending_fail = "start"

\* C3: a /log.json body that is not JSON ends the fetch in a PayloadError
\* with no record parsed and an empty day set; every count the run draws is
\* 0 and the speed is the no-data text, a warning (or, for Connect, an
\* error) tells the user once the run is past the call that shows it, no
\* map or table is drawn, and a run that reaches its end has drawn the four
\* metrics and served the pressed button.
C3_MalformedLog ==
    /\ (run.fetched /\ answers.lr = Malformed) =>
          /\ ErrorKind(run.view.exc) = "PayloadError"
          /\ ~run.view.defined
          /\ run.view.df_day.rows = <<>>
          /\ run.m1 = 0 /\ run.m2 = 0 /\ run.m3 = 0 /\ run.m4 = Dash
          /\ ~run.map.shown /\ ~run.map.table
          /\ run.crashed = "none"
          /\ run.cut # "fetched" =>
                run.status = Msg("warning", "Could not fetch preview JSON",
                                 "JSONDecodeError")
          /\ run.cut = "none" =>
                /\ AllMetricsDrawn
                /\ clicked \in Buttons =>
                      Sent(ButtonRequest(clicked)[1], ButtonRequest(clicked)[2]) # {}
    /\ (clicked = "connect" /\ answers.pr = Malformed) =>
          /\ ErrorKind(run.hexc) = "PayloadError"
          /\ Cardinality(Sent("GET", "/log.json")) >= 1
          /\ run.preview = "none"
          /\ run.cut = "handler" => run.status = Msg("success", "Connected", "none")
          /\ run.cut \in {"daily", "fetched"} =>
                run.status = Msg("error", "Connection failed", "JSONDecodeError")
          /\ run.cut # "handler" => run.status.level \in {"error", "warning"}
          /\ run.cut = "none" => AllMetricsDrawn

\* Connect with a complete /info and both /log.json bodies malformed, in a
\* run that reached its end
C3_Witness ==
    /\ clicked = "connect"
    /\ answers.hr = GoodInfo
    /\ answers.pr = Malformed
    /\ answers.lr = Malformed
    /\ Cardinality(Sent("GET", "/log.json")) = 2
    /\ run.cut = "none"
    /\ AllMetricsDrawn

\* C4: a Stop click whose run is past the handler has sent the same single
\* POST /stop, whatever came before (an acknowledged stop, a failed or
\* timed-out one), and an acknowledged one (2xx with a JSON body) is no
\* failure and shows "Stopped" once the run is past the st.success call: a
\* stop after a stop succeeds like the first.
C4_StopIdempotent ==
    user = "stop" =>
        /\ Cardinality(Sent("POST", "/stop")) = IF run.cut = "top" THEN 0 ELSE 1
        /\ \A i \in Sent("POST", "/stop") : run.sent[i] = Req("POST", "/stop", None)
        /\ (answers.hr = OkJson(<<>>) /\ run.cut # "top") =>
              /\ run.hexc = "none"
              /\ run.msg = IF run.cut = "handler" THEN NoMsg
                           ELSE Msg("success", "Stopped", "none")
              /\ stops_in_row >= 1

\* a second acknowledged stop directly after a first
C4_Witness ==
    /\ user = "stop"
    /\ stops_in_row = MaxStopsCounted
    /\ run.msg.text = "Stopped"

\* C5: a run sends the request of a button at most once and only when the
\* user pressed that button for this run; an auto-refresh rerun sends none
\* of them, also after a failed start, stop or clear: it sends nothing but
\* the GET /log.json of the daily view.
C5_NoRetry ==
    /\ \A b \in Buttons :
          LET n == Cardinality(Sent(ButtonRequest(b)[1], ButtonRequest(b)[2]))
          IN n <= 1 /\ (n = 1 => user = b)
    /\ user = "rerun" =>
          /\ Len(run.sent) <= 1
          /\ \A i \in 1..Len(run.sent) : run.sent[i] = Req("GET", "/log.json", None)

\* an auto-refresh rerun after a failed DELETE /log that got to its fetch
C5_Witness ==
    /\ user = "rerun"
    /\ pending_fail = "clear"
    /\ run.fetched

\* C6: every POST /start is built from form values inside the bounds
\* (velocity in (0,100], distance in (0,1000], delay_s in [0,120], step_hz in
\* [1,50000]) and carries a positive interval; a typed value outside the
\* bounds is rejected and the Start pressed with it causes no request.
C6_StartBounds ==
    /\ \A i \in Sent("POST", "/start") :
          LET b == Val(run.sent[i].body)
          IN /\ form.velocity > 0 /\ form.velocity <= 1000
             /\ form.distance > 0 /\ form.distance <= 10000
             /\ b.delay_s = form.delay_s /\ b.delay_s >= 0 /\ b.delay_s <= 120
             /\ b.step_hz = form.step_hz /\ b.step_hz >= 1 /\ b.step_hz <= 50000
             /\ b.interval_s.num > 0 /\ b.interval_s.den > 0
    /\ (user = "start" /\ OutOfBounds(attempt)) => Sent("POST", "/start") = {}

\* C7: the interval_s of a POST /start is distance / velocity of the values
\* submitted with it and is positive; velocity 10 and distance 30 give 3.
C7_Interval ==
    \A i \in Sent("POST", "/start") :
        LET q == Val(run.sent[i].body).interval_s
        IN /\ q.num * form.velocity = form.distance * q.den
           /\ q.num > 0 /\ q.den > 0
           /\ (attempt.velocity >= 1 /\ attempt.velocity <= 1000) =>
                 form.velocity = attempt.velocity
           /\ (attempt.distance >= 1 /\ attempt.distance <= 10000) =>
                 form.distance = attempt.distance
           /\ (form.velocity = 100 /\ form.distance = 300) => q = [num |-> 3, den |-> 1]

\* velocity 7.0 and distance 0.1 submitted: interval 1/70
C7_Witness ==
    /\ user = "start"
    /\ attempt.velocity = 70
    /\ attempt.distance = 1
    /\ \E i \in Sent("POST", "/start") :
          Val(run.sent[i].body).interval_s = [num |-> 1, den |-> 70]

\* C8: of a fetch that the device answered, the records with a missing or
\* negative ts are left out of the normalized set and of the day window,
\* the other records of the selected day are kept, and the fetch does not
\* fail because of a bad record.  (The page has no output for a count of
\* dropped records.)
C8_DropBadTimestamps ==
    run.view.defined =>
        /\ run.view.exc = "none"
        /\ \A r \in Rows(run.view.df_all) : Has(r.ts) /\ Val(r.ts)[1] >= 0
        /\ \A r \in Rows(run.view.df_day) : Has(r.ts) /\ Val(r.ts)[1] >= 0
        /\ \A i \in 1..Len(answers.lr.data) :
              InSelectedDay(answers.lr.data[i]) =>
                  answers.lr.data[i] \in Rows(run.view.df_day)

\* C9: when no fetched record lies in the selected day (nothing fetched, the
\* fetch failed, or all records are of other days) the page shows 0 rows,
\* 0 valid rows, no average speed, no map centre, and the run does not
\* raise; the average speed is also absent when no row of the day carries a
\* speed.
C9_EmptyAggregate ==
    AllMetricsDrawn =>
        /\ (\A r \in Rows(run.view.df_all) : ~InSelectedDay(r)) =>
              /\ run.m1 = 0 /\ run.m3 = 0 /\ run.m4 = Dash
              /\ ~run.map.shown
              /\ run.crashed = "none"
        /\ (\A r \in Rows(run.view.df_day) : ~Has(r.speed_mps)) => run.m4 = Dash

\* C10: "Valid GPS rows", once drawn, is the number of rows of the selected
\* day with fix_ok true and "Rows (selected day)" the number of all of
\* them, so the first never exceeds the second; coordinates do not make a
\* row valid.
C10_ValidFixRows ==
    /\ run.metrics >= 1 => run.m1 = Len(run.view.df_day.rows)
    /\ run.metrics >= 3 =>
          /\ run.m3 = Len(SelectSeq(run.view.df_day.rows, IsFix))
          /\ run.m3 <= run.m1

\* the day holds one row, with coordinates and fix_ok false
C10_Witness ==
    /\ AllMetricsDrawn
    /\ run.m1 = 1
    /\ run.m3 = 0
    /\ Has(run.view.df_day.rows[1].lat)
    /\ run.view.df_day.rows[1].fix_ok = Some(FALSE)

====
